---- MODULE Spec2Model ----
(***************************************************************************)
(* Dean Dashboard (src/1.py): the read-only status resolution over the     *)
(* _Config, _Audit and _Approvals tabs of a class workbook.                *)
(*                                                                         *)
(* A text value is a sequence of one-character strings, so that lower(),   *)
(* strip() and concatenation are computed character by character.  A tab   *)
(* is the list of rows the Sheets API returns: the header row (a sequence  *)
(* of column names) followed by the data rows (sequences of text cells).   *)
(* A DataFrame is [columns |-> sequence of names, rows |-> sequence of     *)
(* functions from column name to cell].                                    *)
(*                                                                         *)
(* sheetTitles is the list of the sheet titles of the workbook, in the     *)
(* order get_sheet_id_map returns them; text is a text given to a          *)
(* normalization; view is what the script last rendered or computed.       *)
(***************************************************************************)
EXTENDS Integers, Sequences, FiniteSets, TLC

VARIABLES configTab, auditTab, approvalsTab, sheetTitles, text, view

vars == <<configTab, auditTab, approvalsTab, sheetTitles, text, view>>

(* Bounds of the model *)
MaxRows == 3
MaxApprovalRows == 2

(* the most sheets of a workbook *)
MaxTitles == 3

(* the longest text given to a normalization *)
MaxLen == 4

Range(s) == {s[i] : i \in 1..Len(s)}

(***************************************************************************)
(* Python str methods                                                      *)
(***************************************************************************)
Whitespace == {" ", "\t"}

UpperChars == <<"A","B","C","D","E","F","G","H","I","J","K","L","M",
                "N","O","P","Q","R","S","T","U","V","W","X","Y","Z">>
LowerChars == <<"a","b","c","d","e","f","g","h","i","j","k","l","m",
                "n","o","p","q","r","s","t","u","v","w","x","y","z">>

AllChars == Range(UpperChars) \cup Range(LowerChars) \cup Whitespace \cup
            {".", "_", "|", "0", "1", "2", "3", "4", "5", "6", "7", "8", "9"} \cup
            {"(", ")", "-", "/"}

LowerChar == [c \in AllChars |->
    IF \E i \in 1..Len(UpperChars) : UpperChars[i] = c
    THEN LowerChars[CHOOSE i \in 1..Len(UpperChars) : UpperChars[i] = c]
    ELSE c]

(* str.lower() *)
lower(s) == [i \in 1..Len(s) |-> LowerChar[s[i]]]

(* str.strip(): drop leading and trailing whitespace *)
RECURSIVE lstrip(_)
lstrip(s) == IF s # <<>> /\ s[1] \in Whitespace THEN lstrip(Tail(s)) ELSE s

RECURSIVE rstrip(_)
rstrip(s) ==
    IF s # <<>> /\ s[Len(s)] \in Whitespace THEN rstrip(SubSeq(s, 1, Len(s) - 1)) ELSE s

strip(s) == rstrip(lstrip(s))

(* sub in s *)
Contains(sub, s) ==
    \E i \in 0..(Len(s) - Len(sub)) : SubSeq(s, i + 1, i + Len(sub)) = sub

(* the set of s.split() *)
Tokens(s) ==
    {SubSeq(s, p[1], p[2]) : p \in
        {q \in (1..Len(s)) \X (1..Len(s)) :
            /\ q[1] <= q[2]
            /\ \A n \in q[1]..q[2] : s[n] \notin Whitespace
            /\ (q[1] = 1 \/ s[q[1] - 1] \in Whitespace)
            /\ (q[2] = Len(s) \/ s[q[2] + 1] \in Whitespace)}}

(* the characters of [a-z0-9] *)
LowerAlnum == Range(LowerChars) \cup {"0", "1", "2", "3", "4", "5", "6", "7", "8", "9"}

RECURSIVE SkipNonAlnum(_)
SkipNonAlnum(s) ==
    IF s = <<>> \/ Head(s) \in LowerAlnum THEN s ELSE SkipNonAlnum(Tail(s))

(* re.sub(r"[^a-z0-9]+", " ", s) *)
RECURSIVE re_sub_non_alnum(_)
re_sub_non_alnum(s) ==
    IF s = <<>> THEN <<>>
    ELSE IF Head(s) \in LowerAlnum
         THEN <<Head(s)>> \o re_sub_non_alnum(Tail(s))
         ELSE <<" ">> \o re_sub_non_alnum(SkipNonAlnum(Tail(s)))

(* s.replace(old, new) for a set of one-character old values *)
replace(s, old, new) ==
    IF s = <<>> THEN <<>>
    ELSE LET piece(c) == IF c \in old THEN new ELSE <<c>>
             RECURSIVE join(_)
             join(n) == IF n > Len(s) THEN <<>> ELSE piece(s[n]) \o join(n + 1)
         IN  join(1)

(***************************************************************************)
(* Text values of the model                                                *)
(***************************************************************************)
SecondYear   == <<"S","e","c","o","n","d"," ","Y","e","a","r">>
SecondYearSp == <<"S","e","c","o","n","d"," ","Y","e","a","r"," ">>
secondyear   == <<"s","e","c","o","n","d"," ","y","e","a","r">>
FinalYear    == <<"F","i","n","a","l"," ","Y","e","a","r">>
ClassFinal   == <<"C","l","a","s","s","F","i","n","a","l">>
ClassFinalSp == <<"C","l","a","s","s","F","i","n","a","l"," ">>
classfinal   == <<"c","l","a","s","s","f","i","n","a","l">>
txt_locked   == <<"l","o","c","k","e","d">>
txt_LOCKED   == <<"L","O","C","K","E","D">>
txt_lockedSp == <<" ","l","o","c","k","e","d"," ">>
txt_unlocked == <<"u","n","l","o","c","k","e","d">>
Maths        == <<"M","a","t","h","s">>
Physics      == <<"P","h","y","s","i","c","s">>
CS1sp        == <<"C","S","1"," ">>
cs1          == <<"c","s","1">>
cs1dot0      == <<"c","s","1",".","0">>
T1sp         == <<"T","1"," ">>
t1           == <<"t","1">>
Quiz         == <<"Q","u","i","z">>
Marks10      == <<"1","0">>
FinalYearFinal     == <<"F","i","n","a","l"," ","Y","e","a","r"," ","F","i","n","a","l">>
FinalYearFinalProv == <<"F","i","n","a","l"," ","Y","e","a","r"," ","F","i","n","a","l">> \o
                      <<" ","(","P","r","o","v","i","s","i","o","n","a","l",")">>
OtherSheet   == <<"O","t","h","e","r"," ","S","h","e","e","t">>
T1           == <<"T","1">>
t1_marks     == <<"t","1","_","m","a","r","k","s">>
MarksT1      == <<"M","a","r","k","s"," ","T","1">>
T1old        == <<"T","1","-","o","l","d">>
final        == <<"f","i","n","a","l">>
_marks       == <<"_","m","a","r","k","s">>
sp_marks     == <<" ","m","a","r","k","s">>
marks_       == <<"m","a","r","k","s","_">>
marks_sp     == <<"m","a","r","k","s"," ">>

EmptyStr     == <<>>
KeySep       == <<"|","|">>

(***************************************************************************)
(* Character order (code points) for the comparison of text values         *)
(***************************************************************************)
CharOrder == <<"\t"," ","(",")","-",".","/","0","1","2","3","4","5","6","7","8","9",
               "A","B","C","D","E","F","G","H","I","J","K","L","M",
               "N","O","P","Q","R","S","T","U","V","W","X","Y","Z","_",
               "a","b","c","d","e","f","g","h","i","j","k","l","m",
               "n","o","p","q","r","s","t","u","v","w","x","y","z","|">>

Ord == [c \in Range(CharOrder) |-> CHOOSE i \in 1..Len(CharOrder) : CharOrder[i] = c]

(* a < b for Python str: the first differing character decides, a proper
   prefix is smaller *)
StrLess(a, b) ==
    \E n \in 0..Len(a) :
       /\ n <= Len(b)
       /\ \A i \in 1..n : a[i] = b[i]
       /\ \/ (n = Len(a) /\ n < Len(b))
          \/ (n < Len(a) /\ n < Len(b) /\ Ord[a[n+1]] < Ord[b[n+1]])

(***************************************************************************)
(* pandas                                                                  *)
(***************************************************************************)
(* pd.DataFrame() *)
NoFrame == [columns |-> <<>>, rows |-> <<>>]

(* what a call raises instead of returning *)
KeyError == [raised |-> "KeyError"]

Raised(x) == "raised" \in DOMAIN x

ColIdx(cols, c) == CHOOSE i \in 1..Len(cols) : cols[i] = c

(* DataFrame.empty: no rows or no columns *)
empty(df) == Len(df.rows) = 0 \/ Len(df.columns) = 0

(* the rows of the tab become a frame named by the header row; every data
   row is as wide as the header (the branch pd.DataFrame(rows, columns=cols)) *)
_df_from_values(values) ==
    IF values = <<>> THEN NoFrame
    ELSE LET cols == values[1]
             rows == Tail(values)
         IN  [columns |-> cols,
              rows |-> [i \in 1..Len(rows) |->
                          [c \in Range(cols) |-> rows[i][ColIdx(cols, c)]]]]

(* for col in names: if col not in df.columns: df[col] = "" *)
Backfill(df, names) ==
    LET missing == SelectSeq(names, LAMBDA n : n \notin Range(df.columns))
    IN  [columns |-> df.columns \o missing,
         rows |-> [i \in 1..Len(df.rows) |->
                     [c \in Range(df.columns) \cup Range(missing) |->
                        IF c \in Range(df.columns) THEN df.rows[i][c] ELSE EmptyStr]]]

(* df[name] = values *)
WithColumn(df, name, values) ==
    [columns |-> IF name \in Range(df.columns) THEN df.columns
                 ELSE Append(df.columns, name),
     rows |-> [i \in 1..Len(df.rows) |->
                 [c \in DOMAIN df.rows[i] \cup {name} |->
                    IF c = name THEN values[i] ELSE df.rows[i][c]]]]

(* A frame variable of a function: the frame it names, and whether that
   frame is the object the caller passed in.  An argument is the caller's
   object; df[mask] is a new object. *)
Argument(df) == [shared |-> TRUE, df |-> df]

Selection(df) == [shared |-> FALSE, df |-> df]

(* as copy, naming the same object *)
copy_SameObject(local) == local

(* df.copy(): a new object with the same values *)
copy(local) == [shared |-> FALSE, df |-> local.df]

(* the caller's object after the function has assigned columns to its local
   frame *)
CallerFrame(arg, local, assigned) == IF local.shared THEN assigned ELSE arg

(* DataFrame.drop_duplicates(): keep the first of equal rows, in order *)
RECURSIVE drop_duplicates(_)
drop_duplicates(rows) ==
    IF rows = <<>> THEN <<>>
    ELSE LET init == drop_duplicates(SubSeq(rows, 1, Len(rows) - 1))
             last == rows[Len(rows)]
         IN  IF last \in Range(init) THEN init ELSE Append(init, last)

(* as RowLess, by CourseCode alone *)
RowLess_CodeOnly(r1, r2) == StrLess(r1["CourseCode"], r2["CourseCode"])

(* the order of sort_values(by=["CourseCode","Component"]) *)
RowLess(r1, r2) ==
    \/ StrLess(r1["CourseCode"], r2["CourseCode"])
    \/ /\ r1["CourseCode"] = r2["CourseCode"]
       /\ StrLess(r1["Component"], r2["Component"])

(* insert r after the rows that are not greater: equal keys keep their order *)
RECURSIVE InsertSorted(_, _)
InsertSorted(sorted, r) ==
    IF sorted = <<>> THEN <<r>>
    ELSE IF RowLess(r, sorted[Len(sorted)])
         THEN Append(InsertSorted(SubSeq(sorted, 1, Len(sorted) - 1), r),
                     sorted[Len(sorted)])
         ELSE Append(sorted, r)

(* DataFrame.sort_values(by=[...]) over several keys: a stable sort *)
RECURSIVE sort_values(_)
sort_values(rows) ==
    IF rows = <<>> THEN <<>>
    ELSE InsertSorted(sort_values(SubSeq(rows, 1, Len(rows) - 1)), rows[Len(rows)])

(***************************************************************************)
(* Domain logic                                                            *)
(***************************************************************************)
(* is_class_final_approved, from the frame of the _Approvals tab *)
is_class_final_approved(ap, klass) ==
    IF empty(ap) THEN FALSE
    ELSE LET rows == IF ap.columns[1] = "Scope" THEN Tail(ap.rows) ELSE ap.rows
         IN  \E i \in 1..Len(rows) :
                /\ strip(rows[i][ap.columns[1]]) = ClassFinal
                /\ strip(rows[i][ap.columns[2]]) = klass

PreparedColumns == <<"Class","Course","CourseCode","Component",
                     "_class_lower","_code_lower","_comp_lower">>

(* the three derived columns of one row, Class/CourseCode/Component
   backfilled with "" where the tab has no such column *)
(* as _lower_column, dropping a trailing ".0" after the trim *)
_lower_column_Dot0(s) ==
    LET t == lower(strip(s))
    IN  IF Len(t) >= 2 /\ SubSeq(t, Len(t) - 1, Len(t)) = <<".", "0">>
        THEN SubSeq(t, 1, Len(t) - 2)
        ELSE t

(* c[col].astype(str).str.strip().str.lower(), on one cell *)
_lower_column(s) == lower(strip(s))

PreparedRow(r) ==
    LET cell(col) == IF col \in DOMAIN r THEN r[col] ELSE EmptyStr
    IN  [k \in DOMAIN r \cup {"Class","CourseCode","Component",
                              "_class_lower","_code_lower","_comp_lower"} |->
           CASE k = "_class_lower" -> _lower_column(cell("Class"))
             [] k = "_code_lower"  -> _lower_column(cell("CourseCode"))
             [] k = "_comp_lower"  -> _lower_column(cell("Component"))
             [] OTHER -> cell(k)]

_prep_cfg(cfg) ==
    IF empty(cfg) THEN [columns |-> PreparedColumns, rows |-> <<>>]
    ELSE [columns |-> cfg.columns \o
                      SelectSeq(<<"Class","CourseCode","Component",
                                  "_class_lower","_code_lower","_comp_lower">>,
                                LAMBDA n : n \notin Range(cfg.columns)),
          rows |-> [i \in 1..Len(cfg.rows) |-> PreparedRow(cfg.rows[i])]]

(* cfg[cfg["_class_lower"] == str(klass).lower()] *)
ClassRows(cfg, klass) ==
    SelectSeq(cfg.rows, LAMBDA r : r["_class_lower"] = lower(klass))

(* au["Course"].str.lower().str.strip() + "||" + au["Component"].str.lower().str.strip() *)
AuditKey(r) == strip(lower(r["Course"])) \o KeySep \o strip(lower(r["Component"]))

(* c["_code_lower"] + "||" + c["_comp_lower"] *)
ConfigKey(r) == r["_code_lower"] \o KeySep \o r["_comp_lower"]

(* au["Action"].str.lower() == "locked" *)
ActionIsLocked(r) == lower(r["Action"]) = txt_locked

(* as LockedKeys, without the filter on Action *)
LockedKeys_AnyAction(au) == {AuditKey(au.rows[i]) : i \in 1..Len(au.rows)}

(* as LockedKeys, with the latest event of a key deciding *)
LockedKeys_LastWins(au) ==
    {AuditKey(au.rows[i]) : i \in {j \in 1..Len(au.rows) :
        /\ ActionIsLocked(au.rows[j])
        /\ \A l \in (j+1)..Len(au.rows) :
              AuditKey(au.rows[l]) = AuditKey(au.rows[j]) => ActionIsLocked(au.rows[l])}}

(* set(au[au["Action"].str.lower()=="locked"]["key"]) *)
LockedKeys(au) ==
    {AuditKey(au.rows[i]) : i \in {j \in 1..Len(au.rows) : ActionIsLocked(au.rows[j])}}

(* as NothingLocked, with the last line's locked == total in place of False *)
NothingLocked_Vacuous(total) == [locked |-> 0, total |-> total, allLocked |-> (0 = total)]

(* the tuple returned when no row of the class is configured, or the audit
   frame is empty *)
NothingLocked(total) == [locked |-> 0, total |-> total, allLocked |-> FALSE]

(* as CountLocked, the number of locked keys *)
CountLocked_Keys(c, keys) == Cardinality(keys)

(* c["key"].isin(keys).sum() *)
CountLocked(c, keys) == Cardinality({i \in 1..Len(c) : ConfigKey(c[i]) \in keys})

(* lines 123-129: the counts over the rows c of the class *)
LockedOfTotal(nlocked, total) ==
    [locked |-> nlocked, total |-> total, allLocked |-> (nlocked = total)]

all_components_locked_for_class(cfg, audit, klass) ==
    IF empty(cfg) THEN NothingLocked(0)
    ELSE LET c == ClassRows(cfg, klass)
         IN  IF Len(c) = 0 \/ empty(audit) THEN NothingLocked(Len(c))
             ELSE LockedOfTotal(
                     CountLocked(c, LockedKeys(Backfill(audit, <<"Course","Component","Action">>))),
                     Len(c))

ViewColumns == <<"CourseCode","Course","Component","IsLocked">>

TableColumns == <<"CourseCode","Course","Component","Status">>

(* c[["CourseCode","Course","Component","IsLocked"]] with c["IsLocked"] =
   c["key"].isin(keys) *)
ViewRow(r, keys) ==
    [k \in Range(ViewColumns) |->
        IF k = "IsLocked" THEN ConfigKey(r) \in keys ELSE r[k]]

(* view["IsLocked"].map({True: "Locked", False: "Unlocked"}) *)
StatusRow(v) ==
    [k \in Range(TableColumns) |->
        IF k = "Status" THEN (IF v["IsLocked"] THEN "Locked" ELSE "Unlocked") ELSE v[k]]

per_course_lock_table(cfg, audit, klass) ==
    IF empty(cfg) THEN NoFrame
    ELSE LET c == ClassRows(cfg, klass)
         IN  IF c = <<>> THEN NoFrame
             ELSE LET a == Backfill(audit, <<"Course","Component","Action">>)
                      keys == LockedKeys(a)
                  IN  IF \E k \in {"CourseCode","Course","Component"} :
                            k \notin Range(cfg.columns)
                      THEN KeyError
                      ELSE LET vw == sort_values(drop_duplicates(
                                        [i \in 1..Len(c) |-> ViewRow(c[i], keys)]))
                           IN  [columns |-> TableColumns,
                                rows |-> [i \in 1..Len(vw) |-> StatusRow(vw[i])]]

(* the frame passed to _prep_cfg, after the call *)
_prep_cfg_cfg(cfg) ==
    IF empty(cfg) THEN cfg
    ELSE CallerFrame(cfg, copy(Argument(cfg)), _prep_cfg(cfg))

(* c["_code_lower"] + "||" + c["_comp_lower"], the column *)
ConfigKeys(c) == [i \in 1..Len(c.rows) |-> ConfigKey(c.rows[i])]

(* au["Course"].str.lower().str.strip() + "||" + ..., the column *)
AuditKeys(au) == [i \in 1..Len(au.rows) |-> AuditKey(au.rows[i])]

(* a["Action"].astype(str).str.lower().eq("locked"), the column *)
LockedFlags(a) == [i \in 1..Len(a.rows) |-> ActionIsLocked(a.rows[i])]

(* the cfg passed to all_components_locked_for_class, after the call *)
all_components_cfg(cfg, audit, klass) ==
    IF empty(cfg) \/ Len(ClassRows(cfg, klass)) = 0 \/ empty(audit) THEN cfg
    ELSE LET c == [columns |-> cfg.columns, rows |-> ClassRows(cfg, klass)]
         IN  CallerFrame(cfg, copy(Selection(c)),
                         WithColumn(c, "key", ConfigKeys(c)))

(* the audit passed to all_components_locked_for_class, after the call *)
all_components_audit(cfg, audit, klass) ==
    IF empty(cfg) \/ Len(ClassRows(cfg, klass)) = 0 \/ empty(audit) THEN audit
    ELSE LET au == Backfill(audit, <<"Course","Component","Action">>)
         IN  CallerFrame(audit, copy(Argument(audit)),
                         WithColumn(au, "key", AuditKeys(au)))

(* the cfg passed to per_course_lock_table, after the call *)
per_course_cfg(cfg, audit, klass) ==
    IF empty(cfg) \/ ClassRows(cfg, klass) = <<>> THEN cfg
    ELSE LET c == [columns |-> cfg.columns, rows |-> ClassRows(cfg, klass)]
             keys == LockedKeys(Backfill(audit, <<"Course","Component","Action">>))
         IN  CallerFrame(cfg, copy(Selection(c)),
                WithColumn(WithColumn(c, "key", ConfigKeys(c)), "IsLocked",
                           [i \in 1..Len(c.rows) |-> ConfigKey(c.rows[i]) \in keys]))

(* the audit passed to per_course_lock_table, after the call *)
per_course_audit(cfg, audit, klass) ==
    IF empty(cfg) \/ ClassRows(cfg, klass) = <<>> THEN audit
    ELSE LET a == Backfill(audit, <<"Course","Component","Action">>)
         IN  CallerFrame(audit, copy(Argument(audit)),
                WithColumn(WithColumn(a, "Locked", LockedFlags(a)),
                           "key", AuditKeys(a)))

(* Overview: round((locked/total*100.0), 1) if total else 0.0, in tenths of
   a percent; no quotient of the model lies half way between two tenths *)
pct(locked, total) ==
    IF total # 0 THEN (2 * 1000 * locked + total) \div (2 * total) ELSE 0

(* Class View: min(100, int((locked/total*100.0) if total else 0)) *)
progress(locked, total) ==
    LET whole == IF total # 0 THEN (100 * locked) \div total ELSE 0
    IN  IF whole < 100 THEN whole ELSE 100

(* find_matching_marks_tab: the search patterns, in the order of the list *)
patterns(comp_norm) ==
    <<comp_norm, comp_norm \o _marks, comp_norm \o sp_marks,
      marks_ \o comp_norm, marks_sp \o comp_norm>>

(* the positions a loose search takes for pattern matches: the titles that
   contain the component *)
PatternHits_Loose(comp_norm, all_titles) ==
    {i \in 1..Len(all_titles) : Contains(comp_norm, strip(lower(all_titles[i])))}

(* the positions of the titles whose lowered, trimmed text is a pattern *)
PatternHits(comp_norm, all_titles) ==
    {i \in 1..Len(all_titles) :
        strip(lower(all_titles[i])) \in Range(patterns(comp_norm))}

(* the positions of the titles whose lowered, trimmed text contains the
   component *)
SubstringHits(comp_norm, all_titles) ==
    {i \in 1..Len(all_titles) : Contains(comp_norm, strip(lower(all_titles[i])))}

Min(S) == CHOOSE n \in S : \A m \in S : n <= m

(* the first loop returns the first title that is a pattern, the second
   loop the first title that contains the component *)
find_matching_marks_tab(component_name, all_titles) ==
    LET comp_norm == strip(lower(component_name))
        exact == PatternHits(comp_norm, all_titles)
        loose == SubstringHits(comp_norm, all_titles)
    IN  IF exact # {} THEN all_titles[Min(exact)]
        ELSE IF loose # {} THEN all_titles[Min(loose)]
        ELSE EmptyStr

_norm(s) == strip(re_sub_non_alnum(lower(s)))

(* Final-Tab Locator: the words that mark a provisional tab *)
ProvisionalWords ==
    {<<"p","r","o","v","i","s","i","o","n","a","l">>,
     <<"p","r","e","v","i","e","w">>,
     <<"d","r","a","f","t">>, <<"p","r","o","v">>}

(* the class name with "/" and spaces written as "-", as "_", or deleted *)
ClassVariants(klass) ==
    {replace(klass, {"/", " "}, <<"-">>), replace(klass, {"/", " "}, <<"_">>),
     replace(klass, {"/", " "}, <<>>)}

(* a slot is the sequence of the titles assigned to it: none or one *)
NoTabs == [approved |-> <<>>, provisional |-> <<>>]

(* tier A asks for "final" and the class name, tier B for "final" alone *)
IsCandidate(tier, title, klass) ==
    LET n == _norm(title)
    IN  /\ Contains(final, n)
        /\ tier = "A" =>
              \/ \E v \in ClassVariants(klass) : Contains(_norm(v), n)
              \/ Tokens(_norm(klass)) \subseteq Tokens(n)

(* as IsProvisional, on the title as written *)
IsProvisional_RawTitle(title) == \E w \in ProvisionalWords : Contains(w, title)

IsProvisional(title) == \E w \in ProvisionalWords : Contains(w, _norm(title))

(* one pass over the titles in their traversal order: the first candidate
   of a kind fills the empty slot of that kind *)
RECURSIVE ScanTier(_, _, _, _)
ScanTier(tier, titles, klass, slots) ==
    IF titles = <<>> \/ (slots.approved # <<>> /\ slots.provisional # <<>>)
    THEN slots
    ELSE LET t == Head(titles)
             filled ==
                IF ~IsCandidate(tier, t, klass) THEN slots
                ELSE IF IsProvisional(t)
                     THEN IF slots.provisional = <<>>
                          THEN [slots EXCEPT !.provisional = <<t>>] ELSE slots
                     ELSE IF slots.approved = <<>>
                          THEN [slots EXCEPT !.approved = <<t>>] ELSE slots
         IN  ScanTier(tier, Tail(titles), klass, filled)

ApprovedTemplates(klass) ==
    <<klass \o <<"_","_","F","i","n","a","l">>, klass \o <<" ","F","i","n","a","l">>, <<"F","i","n","a","l"," ">> \o klass,
      <<"C","l","a","s","s"," ","F","i","n","a","l"," ","-"," ">> \o klass,
      klass \o <<" ","-"," ","C","l","a","s","s"," ","F","i","n","a","l">>>>

ProvisionalTemplates(klass) ==
    <<klass \o <<"_","_","F","i","n","a","l"," ","(","P","r","o","v","i","s","i","o","n","a","l",")">>,
      klass \o <<"_","_","F","i","n","a","l","_","P","r","o","v","i","s","i","o","n","a","l">>,
      klass \o <<" ","F","i","n","a","l"," ","(","P","r","o","v","i","s","i","o","n","a","l",")">>>>

(* the first template that is a title of the workbook *)
FirstTemplate(templates, titles) ==
    LET hits == {i \in 1..Len(templates) : templates[i] \in Range(titles)}
    IN  IF hits = {} THEN <<>> ELSE <<templates[Min(hits)]>>

TierC(titles, klass, slots) ==
    [approved    |-> IF slots.approved = <<>>
                     THEN FirstTemplate(ApprovedTemplates(klass), titles)
                     ELSE slots.approved,
     provisional |-> IF slots.provisional = <<>>
                     THEN FirstTemplate(ProvisionalTemplates(klass), titles)
                     ELSE slots.provisional]

locateFinalTabs(tabTitles, className) ==
    TierC(tabTitles, className,
          ScanTier("B", tabTitles, className,
                   ScanTier("A", tabTitles, className, NoTabs)))

(***************************************************************************)
(* The tabs of the workbook and the cells written to them                  *)
(***************************************************************************)
ConfigHeader == <<"Class","Course","CourseCode","Component","MaxMarks">>

AuditHeader == <<"Class","Course","Component","Action">>

ApprovalsHeader == <<"Scope","Key">>

(* the cells a writer of the sheet puts in a row, by column *)
ConfigCells ==
    [Class      : {SecondYearSp, FinalYear},
     Course     : {Maths, Physics},
     CourseCode : {CS1sp, cs1dot0},
     Component  : {T1sp},
     MaxMarks   : {Marks10}]

AuditCells ==
    [Class     : {SecondYear, FinalYear},
     Course    : {cs1, cs1dot0},
     Component : {t1},
     Action    : {txt_LOCKED, txt_lockedSp, txt_unlocked}]

ApprovalCells ==
    [Scope : {ClassFinal, ClassFinalSp, classfinal},
     Key   : {SecondYear, secondyear}]

(* the rows of one class, with several components per course *)
CourseCells ==
    [Class      : {SecondYear},
     Course     : {Maths},
     CourseCode : {CS1sp, cs1dot0},
     Component  : {T1sp, t1, Quiz},
     MaxMarks   : {Marks10}]

(* the titles given to the sheets of the workbook *)
SheetTitles ==
    {FinalYearFinal, FinalYearFinalProv, OtherSheet, T1, t1_marks, MarksT1, T1old}

(* the characters of the texts given to a normalization *)
NormChars == {"A", "b", " ", ".", "0", "-"}

Texts == UNION {[1..n -> NormChars] : n \in 0..MaxLen}

(* STANDARD_CLASSES: the class names configured under drive.standard_classes
   and offered by the class selector *)
STANDARD_CLASSES == {SecondYear, secondyear, SecondYearSp}

(* the header with one column left out *)
Without(header, col) == SelectSeq(header, LAMBDA n : n # col)

(* the data rows of a tab with this header: one cell per column *)
RowsFor(header, cells) == {[i \in 1..Len(header) |-> r[header[i]]] : r \in cells}

DataRows(tab) == IF tab = <<>> THEN <<>> ELSE Tail(tab)

NoView == [nav |-> "none"]

(***************************************************************************)
(* State machine                                                           *)
(***************************************************************************)
(* every tab has its header row and no data row; nothing is rendered *)
Init ==
    /\ configTab = <<ConfigHeader>>
    /\ auditTab = <<AuditHeader>>
    /\ approvalsTab = <<ApprovalsHeader>>
    /\ sheetTitles = <<>>
    /\ text = EmptyStr
    /\ view = NoView

(* as Init, but the _Config and _Audit tabs may each lack one expected column *)
InitCols ==
    /\ configTab \in {<<ConfigHeader>>} \cup
          {<<Without(ConfigHeader, c)>> : c \in {"Class","Course","CourseCode","Component"}}
    /\ auditTab \in {<<AuditHeader>>} \cup
          {<<Without(AuditHeader, c)>> : c \in {"Course","Component","Action"}}
    /\ approvalsTab = <<ApprovalsHeader>>
    /\ sheetTitles = <<>>
    /\ text = EmptyStr
    /\ view = NoView

(* a coordinator adds a row to the _Config tab *)
AddConfigRow ==
    /\ Len(DataRows(configTab)) + Len(DataRows(auditTab)) < MaxRows
    /\ \E row \in RowsFor(configTab[1], ConfigCells) :
          configTab' = Append(configTab, row)
    /\ view' = NoView
    /\ UNCHANGED <<auditTab, approvalsTab, sheetTitles, text>>

(* a coordinator adds a component of a course of one class to the _Config tab *)
AddCourseRow ==
    /\ Len(DataRows(configTab)) < MaxRows
    /\ \E row \in RowsFor(configTab[1], CourseCells) :
          configTab' = Append(configTab, row)
    /\ view' = NoView
    /\ UNCHANGED <<auditTab, approvalsTab, sheetTitles, text>>

(* a sheet with a new title is added to the workbook *)
AddSheet ==
    /\ Len(sheetTitles) < MaxTitles
    /\ \E title \in SheetTitles \ Range(sheetTitles) :
          sheetTitles' = Append(sheetTitles, title)
    /\ view' = NoView
    /\ UNCHANGED <<configTab, auditTab, approvalsTab, text>>

(* the marks-entry application appends an event to the _Audit tab *)
AppendAudit ==
    /\ Len(DataRows(configTab)) + Len(DataRows(auditTab)) < MaxRows
    /\ \E row \in RowsFor(auditTab[1], AuditCells) :
          auditTab' = Append(auditTab, row)
    /\ view' = NoView
    /\ UNCHANGED <<configTab, approvalsTab, sheetTitles, text>>

(* an approver adds a record to the _Approvals tab *)
AppendApproval ==
    /\ Len(DataRows(approvalsTab)) < MaxApprovalRows
    /\ \E row \in RowsFor(approvalsTab[1], ApprovalCells) :
          approvalsTab' = Append(approvalsTab, row)
    /\ view' = NoView
    /\ UNCHANGED <<configTab, auditTab, sheetTitles, text>>

(* the Class View of the script for the selected class, from the load of
   the tabs to the status table: the counts, the approval flag and the
   per-course table *)
ClassView ==
    \E cfg \in {_prep_cfg(_df_from_values(configTab))} :
    \E audit \in {_df_from_values(auditTab)} :
    \E klass \in STANDARD_CLASSES :
    \E res \in {all_components_locked_for_class(cfg, audit, klass)} :
       /\ view' = [nav |-> "Class View",
                   klass |-> klass,
                   locked |-> res.locked,
                   total |-> res.total,
                   allLocked |-> res.allLocked,
                   progress |-> progress(res.locked, res.total),
                   approved |-> is_class_final_approved(
                                   _df_from_values(approvalsTab), klass),
                   tbl |-> per_course_lock_table(cfg, audit, klass)]
       /\ view' # view
       /\ UNCHANGED <<configTab, auditTab, approvalsTab, sheetTitles, text>>

(* the Overview of the script, the row of one of the selected classes over
   the workbook of that class *)
Overview ==
    \E cfg \in {_prep_cfg(_df_from_values(configTab))} :
    \E audit \in {_df_from_values(auditTab)} :
    \E k \in STANDARD_CLASSES :
    \E res \in {all_components_locked_for_class(cfg, audit, k)} :
       /\ view' = [nav |-> "Overview",
                   klass |-> k,
                   locked |-> res.locked,
                   total |-> res.total,
                   pct |-> pct(res.locked, res.total),
                   approval |-> is_class_final_approved(
                                   _df_from_values(approvalsTab), k)]
       /\ view' # view
       /\ UNCHANGED <<configTab, auditTab, approvalsTab, sheetTitles, text>>

Next == AddConfigRow \/ AppendAudit \/ ClassView

Spec == Init /\ [][Next]_vars

SpecCols == InitCols /\ [][Next]_vars

NextApprovals == AppendApproval \/ ClassView

SpecApprovals == Init /\ [][NextApprovals]_vars

(* the frames the script holds in the Class View once _prep_cfg,
   all_components_locked_for_class and per_course_lock_table have returned:
   the loaded _Config frame, the prepared frame and the loaded _Audit frame *)
ClassViewFrames ==
    \E raw \in {_df_from_values(configTab)} :
    \E cfg \in {_prep_cfg(raw)} :
    \E audit \in {_df_from_values(auditTab)} :
    \E klass \in STANDARD_CLASSES :
    \E cfg1 \in {all_components_cfg(cfg, audit, klass)} :
    \E audit1 \in {all_components_audit(cfg, audit, klass)} :
       /\ view' = [nav |-> "Class View frames",
                   raw |-> _prep_cfg_cfg(raw),
                   cfg |-> per_course_cfg(cfg1, audit1, klass),
                   audit |-> per_course_audit(cfg1, audit1, klass)]
       /\ view' # view
       /\ UNCHANGED <<configTab, auditTab, approvalsTab, sheetTitles, text>>

NextFrames == AddConfigRow \/ AppendAudit \/ ClassViewFrames

SpecFrames == Init /\ [][NextFrames]_vars

NextViews == AddConfigRow \/ AppendAudit \/ Overview \/ ClassView

SpecViews == Init /\ [][NextViews]_vars

NextTable == AddCourseRow \/ ClassView

SpecTable == Init /\ [][NextTable]_vars

(* Class View, the download button of one locked row of the table *)
DownloadRow ==
    /\ \E component \in {T1sp, Quiz} :
          view' = [nav |-> "Download", component |-> component,
                   all_sheet_titles |-> sheetTitles,
                   marks_tab_name |->
                      find_matching_marks_tab(component, sheetTitles)]
    /\ view' # view
    /\ UNCHANGED <<configTab, auditTab, approvalsTab, sheetTitles, text>>

(* Class View, the section "Class Final (Approved / Provisional)" *)
ClassFinalTabs ==
    /\ \E klass \in {FinalYear, SecondYear} :
          view' = [nav |-> "Class Final", klass |-> klass,
                   tabTitles |-> sheetTitles,
                   tabs |-> locateFinalTabs(sheetTitles, klass)]
    /\ view' # view
    /\ UNCHANGED <<configTab, auditTab, approvalsTab, sheetTitles, text>>

(* any text may be the cell of a key column or a title *)
InitNorm ==
    /\ configTab = <<ConfigHeader>>
    /\ auditTab = <<AuditHeader>>
    /\ approvalsTab = <<ApprovalsHeader>>
    /\ sheetTitles = <<>>
    /\ text \in Texts
    /\ view = NoView

(* _prep_cfg derives the lowered column of a cell, and of its own output *)
NormalizeKey ==
    /\ view' = [nav |-> "_lower_column", s |-> text,
                once |-> _lower_column(text),
                twice |-> _lower_column(_lower_column(text))]
    /\ view' # view
    /\ UNCHANGED <<configTab, auditTab, approvalsTab, sheetTitles, text>>

(* _norm of a text, and of its own output *)
NormalizeTokens ==
    /\ view' = [nav |-> "_norm", s |-> text,
                once |-> _norm(text),
                twice |-> _norm(_norm(text))]
    /\ view' # view
    /\ UNCHANGED <<configTab, auditTab, approvalsTab, sheetTitles, text>>

NextNorm == NormalizeKey \/ NormalizeTokens

SpecNorm == InitNorm /\ [][NextNorm]_vars

NextTabs == AddSheet \/ DownloadRow \/ ClassFinalTabs

SpecTabs == Init /\ [][NextTabs]_vars

(***************************************************************************)
(* Properties                                                              *)
(***************************************************************************)
Rendered == view.nav = "Class View"

ConfigFrame == _df_from_values(configTab)

AuditFrame == _df_from_values(auditTab)

ApprovalsFrame == _df_from_values(approvalsTab)

Cell(r, col) == IF col \in DOMAIN r THEN r[col] ELSE EmptyStr

(* C1: the class is reported approved iff some data row of the approvals
   table has Scope exactly "ClassFinal" and Key exactly the class name *)
C1_ApprovedIffExactRow ==
    Rendered =>
       (view.approved <=>
          \E i \in 1..Len(ApprovalsFrame.rows) :
             /\ ApprovalsFrame.rows[i]["Scope"] = ClassFinal
             /\ ApprovalsFrame.rows[i]["Key"] = view.klass)

(* the config rows that belong to class k, both sides lower-cased and trimmed *)
RowsOfClass(k) ==
    {i \in 1..Len(ConfigFrame.rows) :
        lower(strip(Cell(ConfigFrame.rows[i], "Class"))) = lower(strip(k))}

(* C2: allLocked holds iff lockedCount = totalCount and totalCount > 0, and
   a class without config rows yields (0, 0, false) *)
C2_AllLockedIffFull ==
    Rendered =>
       /\ view.allLocked <=> (view.locked = view.total /\ view.total > 0)
       /\ RowsOfClass(view.klass) = {} =>
             (view.locked = 0 /\ view.total = 0 /\ ~view.allLocked)

(* C2 witness: two config rows of the class, both locked *)
C2_Witness == Rendered /\ view.allLocked /\ view.total >= 2

(* the config rows the class filter of the code selects for class k *)
SelectedRows(k) ==
    {i \in 1..Len(ConfigFrame.rows) :
        lower(strip(Cell(ConfigFrame.rows[i], "Class"))) = lower(k)}

(* the join key of config row i, and of audit event j *)
KeyOfConfig(i) ==
    <<lower(strip(Cell(ConfigFrame.rows[i], "CourseCode"))),
      lower(strip(Cell(ConfigFrame.rows[i], "Component")))>>

KeyOfAudit(j) ==
    <<strip(lower(Cell(AuditFrame.rows[j], "Course"))),
      strip(lower(Cell(AuditFrame.rows[j], "Component")))>>

LockedEvents ==
    {j \in 1..Len(AuditFrame.rows) : lower(Cell(AuditFrame.rows[j], "Action")) = txt_locked}

(* the rows of the rendered table that show Locked *)
LockedShown ==
    IF Rendered /\ ~Raised(view.tbl)
    THEN {view.tbl.rows[i] : i \in {j \in 1..Len(view.tbl.rows) :
                                       view.tbl.rows[j]["Status"] = "Locked"}}
    ELSE {}

(* C3: only "locked" events recorded under the target class lock a config
   row of that class, in the counts and in the table *)
C3_LockedOnlyBySameClass ==
    Rendered =>
       LET sameClass == {j \in LockedEvents :
               lower(strip(Cell(AuditFrame.rows[j], "Class"))) = lower(strip(view.klass))}
           lockable == {i \in SelectedRows(view.klass) :
               \E j \in sameClass : KeyOfAudit(j) = KeyOfConfig(i)}
       IN  /\ view.locked <= Cardinality(lockable)
           /\ LockedShown # {} => lockable # {}

(* the Key Normalizer of the specification: lower-case, trim, drop a
   trailing ".0" *)
normalize(s) ==
    LET t == strip(lower(s))
    IN  IF Len(t) >= 2 /\ SubSeq(t, Len(t) - 1, Len(t)) = <<".", "0">>
        THEN SubSeq(t, 1, Len(t) - 2)
        ELSE t

(* C4: a config row is counted as locked whenever a "locked" event carries
   its course code and component up to case, surrounding whitespace and a
   trailing ".0" *)
C4_JoinedUpToNormalization ==
    Rendered =>
       LET joined == {i \in SelectedRows(view.klass) :
               \E j \in LockedEvents :
                  /\ normalize(Cell(AuditFrame.rows[j], "Course")) =
                        normalize(Cell(ConfigFrame.rows[i], "CourseCode"))
                  /\ normalize(Cell(AuditFrame.rows[j], "Component")) =
                        normalize(Cell(ConfigFrame.rows[i], "Component"))}
       IN  view.locked >= Cardinality(joined)

(* C5: the class filter selects exactly the config rows whose lower-cased,
   trimmed Class equals the lower-cased, trimmed target class *)
C5_ClassFilterNormalizesBothSides ==
    Rendered =>
       /\ view.total = Cardinality(RowsOfClass(view.klass))
       /\ (RowsOfClass(view.klass) # {} /\ ~Raised(view.tbl)) => view.tbl.rows # <<>>

(* no "locked" event carries the key of a config row selected for class k *)
NoMatchingEvent(k) ==
    \A i \in SelectedRows(k) : \A j \in LockedEvents : KeyOfAudit(j) # KeyOfConfig(i)

(* C6 as stated: without matching "locked" events the result is
   (0, total, total = 0) *)
C6_NoMatch_Original ==
    (Rendered /\ NoMatchingEvent(view.klass)) =>
       /\ view.locked = 0
       /\ view.total = Cardinality(SelectedRows(view.klass))
       /\ view.allLocked = (view.total = 0)

(* C6 amended: without matching "locked" events the result is
   (0, total, false), total being the number of selected config rows *)
C6_NoMatch ==
    (Rendered /\ NoMatchingEvent(view.klass)) =>
       /\ view.locked = 0
       /\ view.total = Cardinality(SelectedRows(view.klass))
       /\ ~view.allLocked

(* C6 witness: a row of the class and a "locked" event, of another key *)
C6_Witness ==
    /\ Rendered
    /\ NoMatchingEvent(view.klass)
    /\ view.total >= 1
    /\ LockedEvents # {}

(* the rows of a table returned by per_course_lock_table that show Locked *)
LockedRowsOf(tbl) ==
    {tbl.rows[i] : i \in {j \in 1..Len(tbl.rows) : tbl.rows[j]["Status"] = "Locked"}}

(* C7: appending an audit event, whatever its Action, never decreases
   lockedCount of any class and leaves every Locked row Locked *)
C7_AppendIsMonotonic ==
    [][auditTab' # auditTab =>
          \E cfg0 \in {_prep_cfg(_df_from_values(configTab))} :
          \E cfg1 \in {_prep_cfg(_df_from_values(configTab'))} :
          \E audit0 \in {_df_from_values(auditTab)} :
          \E audit1 \in {_df_from_values(auditTab')} :
          \A k \in STANDARD_CLASSES :
             /\ all_components_locked_for_class(cfg1, audit1, k).locked >=
                   all_components_locked_for_class(cfg0, audit0, k).locked
             /\ LockedRowsOf(per_course_lock_table(cfg0, audit0, k)) \subseteq
                   LockedRowsOf(per_course_lock_table(cfg1, audit1, k))]_vars

(* C7 witness: a row locked by the first event is still counted after a
   later event of the same key with another Action *)
C7_Witness ==
    /\ Rendered
    /\ view.locked >= 1
    /\ LockedShown # {}
    /\ Len(AuditFrame.rows) >= 2
    /\ 1 \in LockedEvents
    /\ Len(AuditFrame.rows) \notin LockedEvents
    /\ KeyOfAudit(Len(AuditFrame.rows)) = KeyOfAudit(1)

(* C8: an event locks the config rows of its key iff its Action, lower-cased
   and trimmed, is "locked" *)
C8_ActionNormalized ==
    Rendered =>
       LET events == {j \in 1..Len(AuditFrame.rows) :
               strip(lower(Cell(AuditFrame.rows[j], "Action"))) = txt_locked}
           lockable == {i \in SelectedRows(view.klass) :
               \E j \in events : KeyOfAudit(j) = KeyOfConfig(i)}
       IN  view.locked = Cardinality(lockable)

(* C9: with an expected column missing from the _Config or _Audit tab the
   resolution still returns its results *)
C9_MissingColumnNeverRaises ==
    (Rendered /\ Len(ConfigFrame.rows) > 0 /\ Len(AuditFrame.rows) > 0) =>
       ~Raised(view.tbl)

(* C10: the rendered table has no two rows with the same
   (CourseCode, Component) *)
C10_NoDuplicatePairs ==
    (Rendered /\ ~Raised(view.tbl)) =>
       \A i, j \in 1..Len(view.tbl.rows) :
          (/\ view.tbl.rows[i]["CourseCode"] = view.tbl.rows[j]["CourseCode"]
           /\ view.tbl.rows[i]["Component"] = view.tbl.rows[j]["Component"]) => i = j

(* (CourseCode, Component) of r1 is less than or equal to that of r2 *)
PairLeq(r1, r2) ==
    \/ StrLess(r1["CourseCode"], r2["CourseCode"])
    \/ /\ r1["CourseCode"] = r2["CourseCode"]
       /\ ~StrLess(r2["Component"], r1["Component"])

(* C11: the rendered table is ordered by CourseCode and, within equal
   CourseCode, by Component *)
C11_TableSorted ==
    (Rendered /\ ~Raised(view.tbl)) =>
       \A i \in 1..(Len(view.tbl.rows) - 1) :
          PairLeq(view.tbl.rows[i], view.tbl.rows[i + 1])

(* C11 witness: three rows of one course whose components were configured
   in descending order *)
C11_Witness ==
    /\ Rendered
    /\ ~Raised(view.tbl)
    /\ Len(view.tbl.rows) = 3
    /\ Len(ConfigFrame.rows) = 3
    /\ \A i \in 1..3 : ConfigFrame.rows[i]["CourseCode"] = ConfigFrame.rows[1]["CourseCode"]
    /\ StrLess(ConfigFrame.rows[3]["Component"], ConfigFrame.rows[2]["Component"])
    /\ StrLess(ConfigFrame.rows[2]["Component"], ConfigFrame.rows[1]["Component"])

(* C12: with the tabs "Final Year Final", "Final Year Final (Provisional)"
   and "Other Sheet" in any traversal order and the class "Final Year", the
   approved slot holds "Final Year Final" alone and the provisional slot
   "Final Year Final (Provisional)" alone *)
C12_FinalYearScenario ==
    (/\ view.nav = "Class Final"
     /\ view.klass = FinalYear
     /\ Range(view.tabTitles) = {FinalYearFinal, FinalYearFinalProv, OtherSheet}) =>
       /\ view.tabs.approved = <<FinalYearFinal>>
       /\ view.tabs.provisional = <<FinalYearFinalProv>>

(* C12 witness: the scenario is located with the provisional tab met first
   and the approved tab met last *)
C12_Witness ==
    /\ view.nav = "Class Final"
    /\ view.klass = FinalYear
    /\ view.tabTitles = <<FinalYearFinalProv, OtherSheet, FinalYearFinal>>
    /\ view.tabs.approved = <<FinalYearFinal>>

C14_InputsUnchanged ==
    view.nav = "Class View frames" =>
       /\ view.raw = ConfigFrame
       /\ view.cfg = _prep_cfg(ConfigFrame)
       /\ view.audit = AuditFrame
       /\ {"key", "Locked", "IsLocked"} \cap
             (Range(view.cfg.columns) \cup Range(view.audit.columns)) = {}

(* C14 witness: the functions ran to their last line, over two configured
   components of the class and a locked event, and the frames are as loaded *)
C14_Witness ==
    /\ view.nav = "Class View frames"
    /\ Len(ClassRows(view.cfg, SecondYear)) = 2
    /\ \E j \in 1..Len(view.audit.rows) : ActionIsLocked(view.audit.rows[j])
    /\ view.audit = AuditFrame

(* the search of a download button: the component and the titles, lowered
   and trimmed *)
Searched == view.nav = "Download"

SearchedComponent == strip(lower(view.component))

TitleText(i) == strip(lower(view.all_sheet_titles[i]))

(* the number of the first of the five patterns that title i is, 0 if none *)
PatternOf(i) ==
    LET c == SearchedComponent
    IN  CASE TitleText(i) = c -> 1
          [] TitleText(i) = c \o <<"_","m","a","r","k","s">> -> 2
          [] TitleText(i) = c \o <<" ","m","a","r","k","s">> -> 3
          [] TitleText(i) = <<"m","a","r","k","s","_">> \o c -> 4
          [] TitleText(i) = <<"m","a","r","k","s"," ">> \o c -> 5
          [] OTHER -> 0

PatternTitles == {i \in 1..Len(view.all_sheet_titles) : PatternOf(i) > 0}

ContainingTitles ==
    {i \in 1..Len(view.all_sheet_titles) : Contains(SearchedComponent, TitleText(i))}

(* C15: when some title is one of the five patterns the returned title is
   one of them, also when a title that only contains the component comes
   first; otherwise the first title that contains the component is
   returned; the empty text is returned only when no title contains it *)
C15_PatternsBeforeSubstring ==
    Searched =>
       /\ PatternTitles # {} =>
             \E i \in PatternTitles : view.marks_tab_name = view.all_sheet_titles[i]
       /\ (PatternTitles = {} /\ ContainingTitles # {}) =>
             \E i \in ContainingTitles :
                /\ view.marks_tab_name = view.all_sheet_titles[i]
                /\ \A j \in ContainingTitles : i <= j
       /\ view.marks_tab_name = EmptyStr => ContainingTitles = {}

(* C15 witness: "T1-old" only contains the component and comes before
   "t1_marks", which is returned *)
C15_Witness ==
    /\ Searched
    /\ view.component = T1sp
    /\ view.all_sheet_titles = <<T1old, OtherSheet, t1_marks>>
    /\ view.marks_tab_name = t1_marks

(* C16: among the titles that are patterns, the one returned is a title of
   the earliest pattern of the list, whatever the order of the titles *)
C16_EarliestPatternWins ==
    (Searched /\ PatternTitles # {}) =>
       \E i \in PatternTitles :
          /\ view.marks_tab_name = view.all_sheet_titles[i]
          /\ \A j \in PatternTitles : PatternOf(i) <= PatternOf(j)

(* C17: in the Overview and in the Class View the count of locked
   components lies between 0 and the total, and with a positive total the
   percentage shown lies between 0 and 100: the Overview's in tenths, the
   Class View's the whole percentage, which its cap at 100 never cuts *)
C17_LockedWithinTotal ==
    view.nav \in {"Overview", "Class View"} =>
       /\ 0 <= view.locked
       /\ view.locked <= view.total
       /\ (view.nav = "Overview" /\ view.total > 0) =>
             (0 <= view.pct /\ view.pct <= 1000)
       /\ (view.nav = "Class View" /\ view.total > 0) =>
             /\ 0 <= (100 * view.locked) \div view.total
             /\ (100 * view.locked) \div view.total <= 100
             /\ view.progress = (100 * view.locked) \div view.total

(* C17 witness: the Overview shows one of two components locked, 50.0 % *)
C17_Witness ==
    /\ view.nav = "Overview"
    /\ view.locked = 1
    /\ view.total = 2
    /\ view.pct = 500

====
